---- MODULE Spec2Model ----
(***************************************************************************)
(* Model of the knowledge organizer: process_documents, search_knowledge  *)
(* and reclassify_document of src/main.py, and the agents of               *)
(* src/agents/knowledge_agents.py (MemoryManager, DocumentParserAgent,     *)
(* ContentClassifierAgent, RelationExtractorAgent).                        *)
(*                                                                         *)
(* Encoding of JSON values.  A JSON string is a TLA+ string.  A JSON       *)
(* number is the string of its digits preceded by "#" ("#2024" is the      *)
(* number 2024, "2024" is the string "2024"): Python keeps the two apart   *)
(* in a dict (2024 != "2024") while json.dump writes both as the object    *)
(* key "2024".  A Python dict that is written by json.dump is a sequence   *)
(* of entries [k, v] in insertion order.  A JSON object of a generation    *)
(* reply is a function from the keys it has to their values.  A value      *)
(* that json.loads may give any shape to (related_docs) is kept with its   *)
(* shape: [t |-> "list", items], [t |-> "str", s] or [t |-> "obj", o].     *)
(***************************************************************************)
EXTENDS Integers, Sequences, FiniteSets, TLC

(***************************************************************************)
(* Bounds of the model.                                                    *)
(***************************************************************************)
MaxOps == 2        \* ingestion runs with files to look at, plus reclassifications made

(***************************************************************************)
(* Inputs.                                                                 *)
(***************************************************************************)
Files == {"a.txt", "b.TXT", "c.bin"}              \* names that may be put in input_docs
IdSeq == <<"doc_0000000a", "doc_0000000b">>        \* values of "doc_" + uuid4()[:8]
IdSpace == {IdSeq[i] : i \in DOMAIN IdSeq}

UpperChars == "ABCDEFGHIJKLMNOPQRSTUVWXYZ"
LowerChars == "abcdefghijklmnopqrstuvwxyz"

\* Python: needle in hay, for two strings
Contains(needle, hay) ==
    \E i \in 1..(Len(hay) - Len(needle) + 1) : SubSeq(hay, i, i + Len(needle) - 1) = needle

\* str.lower() of one character
LowerChar(c) ==
    IF \E i \in 1..Len(UpperChars) : SubSeq(UpperChars, i, i) = c
    THEN LET i == CHOOSE i \in 1..Len(UpperChars) : SubSeq(UpperChars, i, i) = c
         IN  SubSeq(LowerChars, i, i)
    ELSE c

RECURSIVE Lower(_)
Lower(s) == IF Len(s) = 0 THEN s ELSE LowerChar(SubSeq(s, 1, 1)) \o Lower(SubSeq(s, 2, Len(s)))

\* os.path.splitext(file_path)[1]: from the last dot of the last path component
\* on, the dots that component starts with not counted; empty when there is none
SplitExt(path) ==
    LET slashes == {i \in 1..Len(path) : SubSeq(path, i, i) = "/"}
        base    == IF slashes = {} THEN 1
                   ELSE 1 + CHOOSE i \in slashes : \A j \in slashes : j <= i
        named   == {i \in base..Len(path) : SubSeq(path, i, i) # "."}
        dots    == {i \in base..Len(path) :
                       /\ SubSeq(path, i, i) = "."
                       /\ \E j \in named : j < i}
    IN  IF dots = {} THEN SubSeq(path, 1, 0)
        ELSE LET d == CHOOSE i \in dots : \A j \in dots : j <= i
             IN  SubSeq(path, d, Len(path))

\* os.path.join(input_dir, filename)
JoinPath(filename) == "input_docs/" \o filename

\* mutant: the parser takes every file
ParseNeverRaises(path, dir) == FALSE

\* DocumentParserAgent.parse raises for an extension it has no strategy for,
\* and for a .docx or .txt file that is no longer there (_parse_pdf catches
\* what it raises and returns "")
ParseRaises(path, dir) ==
    LET ext == Lower(SplitExt(path))
    IN  \/ ext \notin {".pdf", ".docx", ".txt"}
        \/ ext # ".pdf" /\ \A f \in dir : JoinPath(f) # path

(***************************************************************************)
(* JSON values and Python dicts.                                           *)
(***************************************************************************)
IsNum(v) == Len(v) > 0 /\ SubSeq(v, 1, 1) = "#"
IsStr(v) == ~IsNum(v)
Truthy(v) == v # "" /\ v # "#0"

\* json.dump writes a dict key that is a number as the string of its digits
JsonKey(k) == IF IsNum(k) THEN SubSeq(k, 2, Len(k)) ELSE k

DictHas(d, k) == \E i \in DOMAIN d : d[i].k = k
DictGet(d, k) == d[CHOOSE i \in DOMAIN d : d[i].k = k].v
DictSet(d, k, v) ==
    IF DictHas(d, k)
    THEN [i \in DOMAIN d |-> IF d[i].k = k THEN [k |-> k, v |-> v] ELSE d[i]]
    ELSE Append(d, [k |-> k, v |-> v])

InList(x, list) == \E i \in DOMAIN list : list[i] = x

\* the entries json.dump writes for a dict: every key as a string, in order
DumpDict(d) == [i \in DOMAIN d |-> [k |-> JsonKey(d[i].k), v |-> d[i].v]]

\* the dict json.load builds from written entries: a repeated key keeps its
\* first position and its last value
RECURSIVE LoadDict(_)
LoadDict(t) ==
    IF Len(t) = 0 THEN t
    ELSE LET front == LoadDict(SubSeq(t, 1, Len(t) - 1))
             last  == t[Len(t)]
         IN  DictSet(front, last.k, last.v)

DumpPrefs(p) ==
    [category_hierarchy |-> p.category_hierarchy,
     preferred_level3   |-> DumpDict(p.preferred_level3)]
LoadPrefs(p) ==
    [category_hierarchy |-> p.category_hierarchy,
     preferred_level3   |-> LoadDict(p.preferred_level3)]

NoFile == [exists |-> FALSE]
FileOf(data) == [exists |-> TRUE, data |-> data]

(***************************************************************************)
(* MemoryManager.                                                          *)
(***************************************************************************)
DefaultMemory ==
    [user_preferences |->
        [category_hierarchy |-> <<"Technology", "Life", "Work", "Study">>,
         preferred_level3   |-> <<>>],
     session_status |-> [last_processed |-> "", total_processed |-> 0]]

\* MemoryManager._load_memory
LoadMemory(file) ==
    IF file.exists
    THEN [user_preferences |-> LoadPrefs(file.data.user_preferences),
          session_status   |-> file.data.session_status]
    ELSE DefaultMemory

\* MemoryManager.save_memory: the file that holds data afterwards
SaveMemory(data) ==
    FileOf([user_preferences |-> DumpPrefs(data.user_preferences),
            session_status   |-> data.session_status])

\* mutant: the file is noted and not counted
UpdateSessionWithoutCount(data, doc_name) ==
    [data EXCEPT !.session_status =
        [last_processed  |-> doc_name,
         total_processed |-> data.session_status.total_processed]]

\* MemoryManager.update_session, before its save_memory
UpdateSession(data, doc_name) ==
    [data EXCEPT !.session_status =
        [last_processed  |-> doc_name,
         total_processed |-> data.session_status.total_processed + 1]]

(***************************************************************************)
(* Replies of generate_text.                                               *)
(*   [kind |-> "none"]  no text (None or "")                               *)
(*   [kind |-> "text", wrap, body]  a text:                                *)
(*      wrap "bare"    the body alone                                      *)
(*      wrap "fenced"  the body between ```json and ```                    *)
(*      wrap "prose"   the body inside other words                         *)
(*      body [t |-> "obj", o]   a flat JSON object                         *)
(*      body [t |-> "list", items]  a JSON list                            *)
(*      body [t |-> "str", s]   a JSON string                              *)
(*      body [t |-> "badobj"]   {...} that is not JSON                     *)
(*      body [t |-> "words"]    no JSON and no braces                      *)
(***************************************************************************)
NoReply == [kind |-> "none"]
Text(wrap, body) == [kind |-> "text", wrap |-> wrap, body |-> body]
Obj(o) == [t |-> "obj", o |-> o]
List(items) == [t |-> "list", items |-> items]
Str(s) == [t |-> "str", s |-> s]
BadObj == [t |-> "badobj"]
Words == [t |-> "words"]
Wraps == {"bare", "fenced", "prose"}

\* json.loads of a body on its own
LoadsOk(body) == body.t \in {"obj", "list", "str"}

Levels == {"level1", "level2", "level3"}
Unclassified == [level1 |-> "Unclassified", level2 |-> "Unclassified", level3 |-> "Unclassified"]

(***************************************************************************)
(* ContentClassifierAgent.classify.                                        *)
(***************************************************************************)
\* the loop over required_keys: a required field is missing or empty
MissingField(category) ==
    \E key \in Levels : key \notin DOMAIN category \/ ~Truthy(category[key])

\* the registration of level2 -> level3 in prefs["preferred_level3"]
Register(prefs, category) ==
    LET pl3   == prefs.preferred_level3
        l2    == category.level2
        l3    == category.level3
        pl3a  == IF ~DictHas(pl3, l2) THEN DictSet(pl3, l2, <<>>) ELSE pl3
        pl3b  == IF ~InList(l3, DictGet(pl3a, l2))
                 THEN DictSet(pl3a, l2, Append(DictGet(pl3a, l2), l3))
                 ELSE pl3a
    IN  [prefs EXCEPT !.preferred_level3 = pl3b]

\* MemoryManager.update_preferences, before its save_memory: dict.update
UpdatePreferences(data, new_prefs) ==
    [data EXCEPT !.user_preferences =
        [k \in (DOMAIN data.user_preferences) \cup (DOMAIN new_prefs) |->
            IF k \in DOMAIN new_prefs THEN new_prefs[k] ELSE data.user_preferences[k]]]

\* the cleaned response is parsed by json.loads as it stands
DirectParse(reply) == reply.wrap \in {"bare", "fenced"} /\ LoadsOk(reply.body)

\* re.search(r'\{[^{}]*\}', cleaned_response) finds a fragment
HasFragment(reply) == reply.body.t \in {"obj", "badobj"}

\* classify: the category returned, the preferences afterwards, and whether
\* update_preferences (and so save_memory) ran
Classify(data, reply) ==
    LET sentinel == [ret |-> Unclassified, data |-> data, saved |-> FALSE]
    IN  IF reply.kind = "none" THEN sentinel
        ELSE IF DirectParse(reply)
        THEN IF reply.body.t # "obj" THEN sentinel
             ELSE IF MissingField(reply.body.o) THEN sentinel
             ELSE [ret   |-> reply.body.o,
                   data  |-> UpdatePreferences(data,
                                Register(data.user_preferences, reply.body.o)),
                   saved |-> TRUE]
        ELSE IF HasFragment(reply) /\ reply.body.t = "obj"
        THEN [ret |-> reply.body.o, data |-> data, saved |-> FALSE]
        ELSE sentinel

(***************************************************************************)
(* RelationExtractorAgent.extract.                                         *)
(***************************************************************************)
NoCoreIdeas == "No core ideas extracted"
NoKeywords == "No keywords extracted"
ExtractSentinel == [core_ideas |-> <<NoCoreIdeas>>, keywords |-> <<NoKeywords>>]

\* mutant: empty lists stand for a reply that does not parse
ExtractResultEmpty(reply) ==
    IF reply.kind = "text" /\ reply.wrap = "bare" /\ LoadsOk(reply.body)
    THEN reply.body
    ELSE Obj([core_ideas |-> <<>>, keywords |-> <<>>])

\* result after the first try/except: json.loads(response_text) or the sentinel
ExtractResult(reply) ==
    IF reply.kind = "text" /\ reply.wrap = "bare" /\ LoadsOk(reply.body)
    THEN reply.body
    ELSE Obj(ExtractSentinel)

\* result[key] raises (KeyError, or TypeError when result is a list)
ResultLacks(result, key) == result.t # "obj" \/ key \notin DOMAIN result.o

\* related_docs after the second try/except: whatever JSON value the reply
\* is, or the empty list
RelatedDocs(reply) ==
    IF reply.kind = "text" /\ reply.wrap = "bare" /\ LoadsOk(reply.body)
    THEN reply.body
    ELSE List(<<>>)

\* extract: raises, or the dict returned; relation tells whether the second
\* generation call was made
Extract(reply, relation_reply, all_docs) ==
    LET result == ExtractResult(reply)
    IN  IF Len(all_docs) > 0 /\ ResultLacks(result, "keywords")
        THEN [raises |-> TRUE, relation |-> FALSE]
        ELSE IF ResultLacks(result, "core_ideas") \/ ResultLacks(result, "keywords")
        THEN [raises |-> TRUE, relation |-> Len(all_docs) > 0]
        ELSE [raises       |-> FALSE,
              relation     |-> Len(all_docs) > 0,
              core_ideas   |-> result.o.core_ideas,
              keywords     |-> result.o.keywords,
              related_docs |-> IF Len(all_docs) > 0 THEN RelatedDocs(relation_reply)
                               ELSE List(<<>>)]

(***************************************************************************)
(* The replies the generation capability is taken to give.                 *)
(***************************************************************************)
CatStr  == [level1 |-> "Work", level2 |-> "2024", level3 |-> "Reports"]
CatNum  == [level1 |-> "Unclassified", level2 |-> "#2024", level3 |-> "Plans"]
CatPart == [level1 |-> "Work"]
ClassifyReplies ==
    {NoReply,
     Text("bare", Obj(CatStr)), Text("fenced", Obj(CatNum)), Text("prose", Obj(CatStr)),
     Text("bare", Obj(CatPart)), Text("prose", Obj(CatPart)),
     Text("bare", List(<<"Work">>)), Text("prose", BadObj), Text("bare", Words)}

Ideas == [core_ideas |-> <<"ml improves efficiency", "data matters">>,
          keywords   |-> <<"ml", "python">>]
IdeasOnly == [core_ideas |-> <<"ml improves efficiency">>]
IdeasEmpty == [core_ideas |-> <<>>, keywords |-> <<"ml">>]
ExtractReplies ==
    {NoReply, Text("bare", Obj(Ideas)), Text("fenced", Obj(Ideas)),
     Text("bare", Obj(IdeasOnly)), Text("bare", List(<<"ml">>)), Text("bare", Words),
     Text("bare", Obj(IdeasEmpty))}
RelationReplies ==
    {NoReply, Text("bare", List(<<"doc_0000000a">>)), Text("bare", Str("doc_0000000a")),
     Text("bare", Words)}

(***************************************************************************)
(* State.                                                                  *)
(***************************************************************************)
VARIABLES
    inputDir,        \* the regular files of input_docs
    kbFile,          \* output_kb/knowledge_base.json
    memFile,         \* memory.json
    clock,           \* the time: every operation that stamps records takes a later one
    pc,              \* "idle", "for" (head of the for loop), "while" (head of the while loop)
    memory,          \* memory.data of process_documents
    knowledge_base,  \* knowledge_base of process_documents
    shared,          \* knowledge_base["user_preferences"] is memory.data["user_preferences"]
    doc_files,       \* the part of doc_files the for loop has not reached
    category,
    extracted,
    retry_count,
    need_retry,
    calls,           \* classify and extract calls made for the file being processed
    all_none,        \* no generation call for the file last classified gave a text
    unchanged,       \* input_docs and the knowledge base file are as the last
                     \* completed run left them
    result           \* what the menu operation made last returned, until the
                     \* next operation starts

vars == <<inputDir, kbFile, memFile, clock, pc, memory, knowledge_base, shared,
          doc_files, category, extracted, retry_count, need_retry, calls, all_none, unchanged,
          result>>

\* mutant: one attempt too many
max_retries_plus_one == 3 + 1

max_retries == 3

NoCalls == [classify |-> 0, extract |-> 0]
NoResult == [op |-> "none"]
NoExtracted == [core_ideas |-> <<>>, keywords |-> <<>>, related_docs |-> List(<<>>)]
EmptyKB == [documents |-> <<>>, user_preferences |-> DefaultMemory.user_preferences]

\* json.dump(knowledge_base, f)
DumpKB(kb) ==
    FileOf([documents |-> kb.documents, user_preferences |-> DumpPrefs(kb.user_preferences)])

\* mutant: the documents of the file are not taken over
LoadKBNoDocuments(file) ==
    [documents |-> <<>>, user_preferences |-> LoadPrefs(file.data.user_preferences)]

\* json.load(f) of the knowledge base file
LoadKB(file) ==
    [documents |-> file.data.documents,
     user_preferences |-> LoadPrefs(file.data.user_preferences)]

\* all the orders os.listdir may give the files of a directory in
Listings(dir) ==
    {s \in [1..Cardinality(dir) -> dir] : \A i, j \in 1..Cardinality(dir) : s[i] = s[j] => i = j}

\* mutant: no file counts as processed
NeverProcessed(filename, documents) == FALSE

\* any(doc["filename"] == filename for doc in knowledge_base["documents"])
AlreadyProcessed(filename, documents) ==
    \E i \in DOMAIN documents : documents[i].filename = filename

\* mutant: only the category with all three levels Unclassified is invalid
IsCategoryInvalidSentinelOnly(cat) ==
    IF ~(Levels \subseteq DOMAIN cat) THEN [raises |-> TRUE]
    ELSE [raises |-> FALSE, value |-> cat = Unclassified]

\* mutant: the category is taken to be valid once it has its three levels
IsCategoryInvalidNever(cat) ==
    IF ~(Levels \subseteq DOMAIN cat) THEN [raises |-> TRUE]
    ELSE [raises |-> FALSE, value |-> FALSE]

\* is_category_invalid, with the short circuit of "or": a KeyError when a
\* level that has to be read is missing
IsCategoryInvalid(cat) ==
    IF "level1" \notin DOMAIN cat THEN [raises |-> TRUE]
    ELSE IF cat.level1 = "Unclassified" THEN [raises |-> FALSE, value |-> TRUE]
    ELSE IF "level2" \notin DOMAIN cat THEN [raises |-> TRUE]
    ELSE IF cat.level2 = "Unclassified" THEN [raises |-> FALSE, value |-> TRUE]
    ELSE IF "level3" \notin DOMAIN cat THEN [raises |-> TRUE]
    ELSE [raises |-> FALSE, value |-> cat.level3 = "Unclassified"]

HasInvalidCoreIdeas(e) == Len(e.core_ideas) = 1 /\ Contains(NoCoreIdeas, e.core_ideas[1])
HasInvalidKeywords(e) == Len(e.keywords) = 1 /\ Contains(NoKeywords, e.keywords[1])

\* the values uuid4 may give, up to a renaming of the ids no record has: an id
\* some record has already, or the first of the ids that none has
NewIds(documents) ==
    LET used == {documents[i].id : i \in DOMAIN documents}
        free == {i \in DOMAIN IdSeq : IdSeq[i] \notin used}
    IN  used \cup {IdSeq[i] : i \in {j \in free : \A k \in free : j <= k}}

\* mutant: the record is given the category of a document not classified
NewRecordUnclassified(doc_id, filename, cat, e, now) ==
    [id |-> doc_id, filename |-> filename, path |-> JoinPath(filename),
     category |-> Unclassified, core_ideas |-> e.core_ideas, keywords |-> e.keywords,
     related_docs |-> e.related_docs, processed_time |-> now]

\* the record appended to knowledge_base["documents"]
NewRecord(doc_id, filename, cat, e, now) ==
    [id |-> doc_id, filename |-> filename, path |-> JoinPath(filename),
     category |-> cat, core_ideas |-> e.core_ideas, keywords |-> e.keywords,
     related_docs |-> e.related_docs, processed_time |-> now]

Init ==
    /\ inputDir = {}
    /\ kbFile = NoFile
    /\ memFile = NoFile
    /\ clock = 0
    /\ pc = "idle"
    /\ memory = DefaultMemory
    /\ knowledge_base = EmptyKB
    /\ shared = FALSE
    /\ doc_files = <<>>
    /\ category = Unclassified
    /\ extracted = NoExtracted
    /\ retry_count = 0
    /\ need_retry = FALSE
    /\ calls = NoCalls
    /\ all_none = FALSE
    /\ unchanged = FALSE
    /\ result = NoResult

\* the process is over: its objects are gone
Exit ==
    /\ pc' = "idle"
    /\ memory' = DefaultMemory
    /\ knowledge_base' = EmptyKB
    /\ shared' = FALSE
    /\ doc_files' = <<>>
    /\ category' = Unclassified
    /\ extracted' = NoExtracted
    /\ retry_count' = 0
    /\ need_retry' = FALSE
    /\ calls' = NoCalls
    /\ all_none' = FALSE
    /\ result' = NoResult

\* the user puts a file into input_docs between runs
AddFile(f) ==
    /\ pc = "idle"
    /\ clock < MaxOps
    /\ f \notin inputDir
    /\ inputDir' = inputDir \cup {f}
    /\ unchanged' = FALSE
    /\ result' = NoResult
    /\ UNCHANGED <<kbFile, memFile, clock, pc, memory, knowledge_base, shared,
                   doc_files, category, extracted, retry_count, need_retry, calls, all_none>>

\* process_documents up to the return for an empty input_docs
RunNoFiles ==
    /\ pc = "idle"
    /\ clock < MaxOps
    /\ inputDir = {}
    /\ Exit
    /\ UNCHANGED <<inputDir, kbFile, memFile, clock, unchanged>>

\* process_documents up to the head of the for loop
StartRun ==
    /\ pc = "idle"
    /\ clock < MaxOps
    /\ inputDir # {}
    /\ clock' = clock + 1
    /\ memory' = LoadMemory(memFile)
    /\ knowledge_base' = IF kbFile.exists THEN LoadKB(kbFile)
                         ELSE [documents |-> <<>>,
                               user_preferences |-> memory'.user_preferences]
    /\ shared' = ~kbFile.exists
    /\ \E order \in Listings(inputDir) : doc_files' = order
    /\ pc' = "for"
    /\ result' = NoResult
    /\ UNCHANGED <<inputDir, kbFile, memFile, category, extracted, retry_count, need_retry,
                   calls, all_none, unchanged>>

\* the file is already in the knowledge base
SkipProcessed ==
    /\ pc = "for"
    /\ doc_files # <<>>
    /\ AlreadyProcessed(Head(doc_files), knowledge_base.documents)
    /\ doc_files' = Tail(doc_files)
    /\ UNCHANGED <<inputDir, kbFile, memFile, clock, pc, memory, knowledge_base, shared,
                   category, extracted, retry_count, need_retry, calls, all_none, unchanged,
                   result>>

\* parser.parse raises
ParseFailed ==
    /\ pc = "for"
    /\ doc_files # <<>>
    /\ ~AlreadyProcessed(Head(doc_files), knowledge_base.documents)
    /\ ParseRaises(JoinPath(Head(doc_files)), inputDir)
    /\ doc_files' = Tail(doc_files)
    /\ UNCHANGED <<inputDir, kbFile, memFile, clock, pc, memory, knowledge_base, shared,
                   category, extracted, retry_count, need_retry, calls, all_none, unchanged,
                   result>>

\* the file is parsed and classified, and the retry loop is set up
ClassifyDoc ==
    /\ pc = "for"
    /\ doc_files # <<>>
    /\ ~AlreadyProcessed(Head(doc_files), knowledge_base.documents)
    /\ ~ParseRaises(JoinPath(Head(doc_files)), inputDir)
    /\ \E reply \in ClassifyReplies :
        LET c == Classify(memory, reply)
        IN  /\ category' = c.ret
            /\ memory' = c.data
            /\ memFile' = IF c.saved THEN SaveMemory(c.data) ELSE memFile
            /\ knowledge_base' =
                 IF shared
                 THEN [knowledge_base EXCEPT !.user_preferences = c.data.user_preferences]
                 ELSE knowledge_base
            /\ all_none' = (reply.kind = "none")
    /\ retry_count' = 0
    /\ need_retry' = TRUE
    /\ extracted' = NoExtracted
    /\ calls' = [classify |-> 1, extract |-> 0]
    /\ pc' = "while"
    /\ UNCHANGED <<inputDir, kbFile, clock, shared, doc_files, unchanged, result>>

\* one pass of the while loop
ExtractAttempt ==
    /\ pc = "while"
    /\ need_retry /\ retry_count < max_retries
    /\ \E reply \in ExtractReplies,
          relation_reply \in IF Len(knowledge_base.documents) > 0 THEN RelationReplies
                             ELSE {NoReply} :
        LET e   == Extract(reply, relation_reply, knowledge_base.documents)
            inv == IsCategoryInvalid(category)
        IN  IF e.raises \/ inv.raises
            THEN /\ Exit
                 /\ UNCHANGED <<inputDir, kbFile, memFile, clock, unchanged>>
            ELSE LET retry == inv.value \/ HasInvalidCoreIdeas(e) \/ HasInvalidKeywords(e)
                 IN  /\ extracted' = [core_ideas |-> e.core_ideas, keywords |-> e.keywords,
                                      related_docs |-> e.related_docs]
                     /\ need_retry' = retry
                     /\ retry_count' = IF retry THEN retry_count + 1 ELSE retry_count
                     /\ calls' = [calls EXCEPT !.extract = @ + 1]
                     /\ all_none' = (/\ all_none
                                     /\ reply.kind = "none"
                                     /\ (e.relation => relation_reply.kind = "none"))
                     /\ UNCHANGED <<inputDir, kbFile, memFile, clock, pc, memory,
                                    knowledge_base, shared, doc_files, category, unchanged,
                                    result>>

\* after the while loop: the record is appended and the session updated
AppendRecord ==
    /\ pc = "while"
    /\ ~(need_retry /\ retry_count < max_retries)
    /\ IF ~(Levels \subseteq DOMAIN category)
       THEN /\ Exit
            /\ UNCHANGED <<inputDir, kbFile, memFile, clock, unchanged>>
       ELSE /\ \E doc_id \in NewIds(knowledge_base.documents) :
                 knowledge_base' = [knowledge_base EXCEPT !.documents =
                     Append(@, NewRecord(doc_id, Head(doc_files), category, extracted, clock))]
            /\ memory' = UpdateSession(memory, Head(doc_files))
            /\ memFile' = SaveMemory(memory')
            /\ doc_files' = Tail(doc_files)
            /\ calls' = NoCalls
            /\ pc' = "for"
            /\ UNCHANGED <<inputDir, kbFile, clock, shared, category, extracted,
                           retry_count, need_retry, all_none, unchanged, result>>

\* after the for loop: the knowledge base is written
SaveKB ==
    /\ pc = "for"
    /\ doc_files = <<>>
    /\ kbFile' = DumpKB(knowledge_base)
    /\ unchanged' = TRUE
    /\ Exit
    /\ UNCHANGED <<inputDir, memFile, clock>>

\* mutant: the first record stands in for a filename that no record has
FindRecordOrFirst(filename, documents) ==
    IF \E i \in DOMAIN documents : documents[i].filename = filename
    THEN CHOOSE i \in DOMAIN documents :
            /\ documents[i].filename = filename
            /\ \A j \in DOMAIN documents : documents[j].filename = filename => i <= j
    ELSE IF Len(documents) > 0 THEN 1 ELSE 0

\* index of the first record with the filename, 0 when there is none
FindRecord(filename, documents) ==
    IF \E i \in DOMAIN documents : documents[i].filename = filename
    THEN CHOOSE i \in DOMAIN documents :
            /\ documents[i].filename = filename
            /\ \A j \in DOMAIN documents : documents[j].filename = filename => i <= j
    ELSE 0

FileNames == Files \cup {"missing.txt"}    \* what the user may type at the prompt

\* mutant: the record is rebuilt and loses its relations
ReclassifiedWithoutRelations(kb, doc_index, new_category, now) ==
    [kb EXCEPT !.documents[doc_index].category = new_category,
               !.documents[doc_index].processed_time = now,
               !.documents[doc_index].related_docs = List(<<>>)]

\* the two assignments reclassify_document makes to the record
Reclassified(kb, doc_index, new_category, now) ==
    [kb EXCEPT !.documents[doc_index].category = new_category,
               !.documents[doc_index].processed_time = now]

\* what reclassify_document returns, with the calls it made to the parser
\* and to the classifier and the documents of the knowledge_base it was given
\* as they are when it returns
ReclassifyFailure(filename, message, parsed, documents) ==
    [op |-> "reclassify", filename |-> filename, success |-> FALSE, message |-> message,
     parsed |-> parsed, classified |-> FALSE, documents |-> documents]
ReclassifySuccess(filename, new_category, documents) ==
    [op |-> "reclassify", filename |-> filename, success |-> TRUE,
     new_category |-> new_category, parsed |-> TRUE, classified |-> TRUE,
     documents |-> documents]

\* menu option 4: the knowledge base is read from its file and
\* reclassify_document(filename, knowledge_base) runs
Reclassify(filename) ==
    /\ pc = "idle"
    /\ clock < MaxOps
    /\ kbFile.exists
    /\ Len(kbFile.data.documents) > 0
    /\ LET kb        == LoadKB(kbFile)
           doc_index == FindRecord(filename, kb.documents)
       IN  IF doc_index = 0
           THEN /\ result' = ReclassifyFailure(filename, "not found in knowledge base",
                                                FALSE, kb.documents)
                /\ UNCHANGED <<kbFile, memFile, clock>>
           ELSE IF ParseRaises(kb.documents[doc_index].path, inputDir)
           THEN /\ result' = ReclassifyFailure(filename, "Parsing failed", TRUE, kb.documents)
                /\ UNCHANGED <<kbFile, memFile, clock>>
           ELSE \E reply \in ClassifyReplies :
                   LET c   == Classify(LoadMemory(memFile), reply)
                       new == Reclassified(kb, doc_index, c.ret, clock + 1)
                   IN  /\ clock' = clock + 1
                       /\ memFile' = IF c.saved THEN SaveMemory(c.data) ELSE memFile
                       /\ kbFile' = DumpKB(new)
                       /\ result' = ReclassifySuccess(filename, c.ret, new.documents)
    /\ unchanged' = (unchanged /\ kbFile' = kbFile)
    /\ UNCHANGED <<inputDir, pc, memory, knowledge_base, shared, doc_files, category,
                   extracted, retry_count, need_retry, calls, all_none>>

\* the user takes a file out of input_docs between runs
RemoveFile(f) ==
    /\ pc = "idle"
    /\ clock < MaxOps
    /\ f \in inputDir
    /\ inputDir' = inputDir \ {f}
    /\ unchanged' = FALSE
    /\ result' = NoResult
    /\ UNCHANGED <<kbFile, memFile, clock, pc, memory, knowledge_base, shared,
                   doc_files, category, extracted, retry_count, need_retry, calls, all_none>>

(***************************************************************************)
(* search_knowledge.                                                       *)
(***************************************************************************)
\* Python: x in container, for the shapes a JSON value may have
In(x, container) ==
    CASE container.t = "list" -> InList(x, container.items)
      [] container.t = "str"  -> Contains(x, container.s)
      [] container.t = "obj"  -> x \in DOMAIN container.o

\* query_value in doc["category"][level], level after level until one holds:
\* a KeyError for a level the category lacks, a TypeError for a level that is
\* a number
RECURSIVE CategoryMatch(_, _, _)
CategoryMatch(cat, query_value, levels) ==
    IF Len(levels) = 0 THEN [raises |-> FALSE, value |-> FALSE]
    ELSE IF Head(levels) \notin DOMAIN cat THEN [raises |-> TRUE]
    ELSE IF IsNum(cat[Head(levels)]) THEN [raises |-> TRUE]
    ELSE IF Contains(query_value, cat[Head(levels)])
    THEN [raises |-> FALSE, value |-> TRUE]
    ELSE CategoryMatch(cat, query_value, Tail(levels))

\* the keyword branch: how many times the two loops append the document
KeywordAppends(doc, query_value) ==
    LET skip == \E i \in DOMAIN doc.core_ideas : Contains(query_value, doc.core_ideas[i])
        kw   == \E i \in DOMAIN doc.keywords : Contains(query_value, doc.keywords[i])
    IN  (IF skip THEN 1 ELSE 0) + (IF kw /\ ~skip THEN 1 ELSE 0)

Times(n, x) == [i \in 1..n |-> x]

\* the loop over knowledge_base["documents"] from document i on; results holds
\* the positions of the documents appended so far
RECURSIVE SearchLoop(_, _, _, _, _)
SearchLoop(documents, i, query_type, query_value, results) ==
    IF i > Len(documents) THEN [signal |-> "done", results |-> results]
    ELSE IF query_type = "category"
    THEN LET m == CategoryMatch(documents[i].category, query_value,
                                <<"level1", "level2", "level3">>)
         IN  IF m.raises THEN [signal |-> "raises", at |-> "matching"]
             ELSE SearchLoop(documents, i + 1, query_type, query_value,
                             IF m.value THEN Append(results, i) ELSE results)
    ELSE IF query_type = "keyword"
    THEN SearchLoop(documents, i + 1, query_type, query_value,
                    results \o Times(KeywordAppends(documents[i], query_value), i))
    ELSE IF query_type = "related"
    THEN SearchLoop(documents, i + 1, query_type, query_value,
                    IF In(query_value, documents[i].related_docs)
                    THEN Append(results, i) ELSE results)
    ELSE [signal |-> "unsupported"]

\* the lines written for a result raise: a level the category lacks, or no
\* first core idea
RenderRaises(doc) ==
    \/ ~(Levels \subseteq DOMAIN doc.category)
    \/ Len(doc.core_ideas) = 0

\* search_knowledge: the signal returned and, with "found", the positions in
\* documents of the results listed; with "raises", where the error came up
SearchKnowledge(file, query_type, query_value) ==
    IF ~file.exists THEN [signal |-> "no knowledge base"]
    ELSE LET kb == LoadKB(file)
             found == SearchLoop(kb.documents, 1, query_type, query_value, <<>>)
         IN  IF found.signal # "done" THEN found
             ELSE IF Len(found.results) = 0 THEN [signal |-> "no results"]
             ELSE IF \E r \in DOMAIN found.results :
                        RenderRaises(kb.documents[found.results[r]])
             THEN [signal |-> "raises", at |-> "rendering"]
             ELSE [signal |-> "found", results |-> found.results]

\* the queries the user is taken to make
Queries ==
    {<<"category", "Work">>, <<"keyword", "m">>, <<"keyword", "python">>,
     <<"related", "doc_">>, <<"related", "doc_0000000a">>, <<"author", "Work">>}

Signals == {"no knowledge base", "unsupported", "no results", "found", "raises"}

\* menu options 1 to 3 (and a call with another query type): the knowledge
\* base file is read and nothing is written
Search(query_type, query_value) ==
    /\ pc = "idle"
    /\ SearchKnowledge(kbFile, query_type, query_value).signal \in Signals
    /\ UNCHANGED vars

Next ==
    \/ \E f \in Files : AddFile(f)
    \/ RunNoFiles
    \/ StartRun
    \/ SkipProcessed
    \/ ParseFailed
    \/ ClassifyDoc
    \/ ExtractAttempt
    \/ AppendRecord
    \/ SaveKB
    \/ \E filename \in FileNames : Reclassify(filename)
    \/ \E f \in Files : RemoveFile(f)
    \/ \E q \in Queries : Search(q[1], q[2])

Spec == Init /\ [][Next]_vars

(***************************************************************************)
(* Properties.                                                             *)
(***************************************************************************)
PersistedDocs == IF kbFile.exists THEN kbFile.data.documents ELSE <<>>
PersistedPrefs == LoadMemory(memFile).user_preferences
Last(seq) == seq[Len(seq)]
Remaining == {doc_files[i] : i \in DOMAIN doc_files}

UniqueFilenames(documents) ==
    \A i, j \in DOMAIN documents : documents[i].filename = documents[j].filename => i = j
UniqueIds(documents) ==
    \A i, j \in DOMAIN documents : documents[i].id = documents[j].id => i = j

\* C1: in every reachable state no two records of documents, in memory or in
\* the knowledge base file, have the same filename.
C1_UniqueFilenames ==
    UniqueFilenames(knowledge_base.documents) /\ UniqueFilenames(PersistedDocs)

\* two records that two different runs appended are in the file
C1_Witness ==
    /\ Len(PersistedDocs) = 2
    /\ PersistedDocs[1].processed_time # PersistedDocs[2].processed_time

\* C2: a run that finds input_docs and the knowledge base file as a completed
\* run left them appends no record and calls neither the classifier nor the
\* extractor.
C2_RerunAppendsNothing ==
    (pc # "idle" /\ unchanged) =>
        /\ knowledge_base.documents = PersistedDocs
        /\ calls = NoCalls

\* such a run is through a directory with a recorded file and a file that
\* does not parse
C2_Witness ==
    /\ pc = "for" /\ unchanged /\ doc_files = <<>>
    /\ Len(knowledge_base.documents) >= 1
    /\ "c.bin" \in inputDir

\* C3: the ids of the records are pairwise distinct in every reachable state.
C3_DistinctIds ==
    UniqueIds(knowledge_base.documents) /\ UniqueIds(PersistedDocs)

\* C4: extract is called at most 3 times for a document, whatever it returns.
C4_AtMostThreeExtractions == calls.extract <= 3

\* three extractions were made for one document and each asked for a retry
C4_Witness == pc = "while" /\ calls.extract = 3 /\ need_retry

\* C5: when no generation call made for a file gave a text, the record
\* appended for it has the all-Unclassified category, the two sentinel lists
\* and no related documents.
C5_NoTextGivesSentinels ==
    (pc = "for" /\ all_none) =>
        LET r == Last(knowledge_base.documents)
        IN  /\ r.category = [level1 |-> "Unclassified", level2 |-> "Unclassified",
                             level3 |-> "Unclassified"]
            /\ r.core_ideas = <<"No core ideas extracted">>
            /\ r.keywords = <<"No keywords extracted">>
            /\ r.related_docs = [t |-> "list", items |-> <<>>]

\* such a record was appended to a knowledge base that held a record already
C5_Witness ==
    /\ pc = "for" /\ all_none
    /\ Len(knowledge_base.documents) = 2
    /\ Last(knowledge_base.documents).core_ideas = <<"No core ideas extracted">>

\* C6: a run that has started goes through all its files and ends by writing
\* the knowledge base, whatever the replies are.
C6_BatchNeverAborted ==
    [][(pc # "idle" /\ pc' = "idle") =>
          (pc = "for" /\ doc_files = <<>> /\ kbFile' = DumpKB(knowledge_base))]_vars

\* C7: the category classify returns has three levels that are non-empty
\* strings, or is the all-Unclassified sentinel.
C7_CategoryShape ==
    pc = "while" =>
        \/ category = Unclassified
        \/ /\ DOMAIN category = Levels
           /\ \A k \in Levels : IsStr(category[k]) /\ category[k] # ""

\* C8: when classify has returned a category that is not the sentinel (taken
\* here with its three levels), the preference file has level3 in
\* preferred_level3[level2], and no list of preferred_level3 holds a value
\* twice.
C8_Registered ==
    /\ (pc = "while" /\ category # Unclassified /\ Levels \subseteq DOMAIN category) =>
          /\ DictHas(PersistedPrefs.preferred_level3, JsonKey(category.level2))
          /\ InList(category.level3,
                    DictGet(PersistedPrefs.preferred_level3, JsonKey(category.level2)))
    /\ \A e \in DOMAIN PersistedPrefs.preferred_level3 :
          LET list == PersistedPrefs.preferred_level3[e].v
          IN  \A i, j \in DOMAIN list : list[i] = list[j] => i = j

\* C9: no step takes an element out of a list of the preferred_level3 that
\* the preference file holds, or out of its category_hierarchy.
C9_PreferencesOnlyGrow ==
    [][LET old == PersistedPrefs
           new == PersistedPrefs'
       IN  /\ \A e \in DOMAIN old.preferred_level3 :
                LET k == old.preferred_level3[e].k
                IN  /\ DictHas(new.preferred_level3, k)
                    /\ \A x \in DOMAIN old.preferred_level3[e].v :
                          InList(old.preferred_level3[e].v[x], DictGet(new.preferred_level3, k))
           /\ \A h \in DOMAIN old.category_hierarchy :
                InList(old.category_hierarchy[h], new.category_hierarchy)]_vars

\* C10: when the file at the head of the loop is one the parser raises for
\* (c.bin has no parsing strategy), the step appends no record, calls neither
\* the classifier nor the extractor, leaves the preferences and the session
\* counters as they are, in memory and on disk, and goes on to the next file.
C10_ParseErrorSkipsFile ==
    [][(pc = "for" /\ doc_files # <<>> /\ Head(doc_files) = "c.bin") =>
          /\ knowledge_base' = knowledge_base
          /\ calls' = calls
          /\ memory' = memory
          /\ memFile' = memFile
          /\ kbFile' = kbFile
          /\ pc' = "for"
          /\ doc_files' = Tail(doc_files)]_vars

\* c.bin was listed before the file that is in the retry loop now
C10_Witness ==
    /\ pc = "while"
    /\ "c.bin" \in inputDir
    /\ "c.bin" \notin Remaining

\* C11: a reclassification asked for a filename that no record of the
\* knowledge base file has returns the not-found failure, calls neither the
\* parser nor the classifier, and leaves the documents as they were, in the
\* knowledge base it was given and in the file (and the preference file too).
C11_ReclassifyNotFound ==
    [][(/\ result'.op = "reclassify"
        /\ \A i \in DOMAIN PersistedDocs : PersistedDocs[i].filename # result'.filename) =>
          /\ result'.success = FALSE
          /\ result'.message = "not found in knowledge base"
          /\ result'.parsed = FALSE
          /\ result'.classified = FALSE
          /\ result'.documents = PersistedDocs
          /\ kbFile' = kbFile
          /\ memFile' = memFile]_vars

\* missing.txt was asked for while the knowledge base held two records
C11_Witness ==
    /\ result.op = "reclassify"
    /\ result.filename = "missing.txt"
    /\ Len(PersistedDocs) = 2

\* C12: a reclassification that succeeds writes the knowledge base file
\* before it returns, with a new category and processed_time in the first
\* record that has the filename; the other fields of that record, the other
\* records, and the order and number of the documents are as before.  One
\* that fails leaves the record and the file as they were.
C12_ReclassifyFrame ==
    [][result'.op = "reclassify" =>
          IF result'.success
          THEN LET i == CHOOSE i \in DOMAIN PersistedDocs :
                           /\ PersistedDocs[i].filename = result'.filename
                           /\ \A j \in 1..(i - 1) :
                                 PersistedDocs[j].filename # result'.filename
               IN  /\ Len(PersistedDocs') = Len(PersistedDocs)
                   /\ \A j \in DOMAIN PersistedDocs :
                         j # i => PersistedDocs'[j] = PersistedDocs[j]
                   /\ PersistedDocs'[i].id = PersistedDocs[i].id
                   /\ PersistedDocs'[i].filename = PersistedDocs[i].filename
                   /\ PersistedDocs'[i].path = PersistedDocs[i].path
                   /\ PersistedDocs'[i].core_ideas = PersistedDocs[i].core_ideas
                   /\ PersistedDocs'[i].keywords = PersistedDocs[i].keywords
                   /\ PersistedDocs'[i].related_docs = PersistedDocs[i].related_docs
                   /\ PersistedDocs'[i].category = result'.new_category
                   /\ PersistedDocs'[i].processed_time >= PersistedDocs[i].processed_time
                   /\ result'.documents = PersistedDocs'
          ELSE /\ kbFile' = kbFile
               /\ result'.documents = PersistedDocs]_vars

\* the second of two records, one that has a related document, was given a
\* new category
C12_Witness ==
    /\ result.op = "reclassify"
    /\ result.success
    /\ Len(PersistedDocs) = 2
    /\ PersistedDocs[2].filename = result.filename
    /\ PersistedDocs[2].related_docs # [t |-> "list", items |-> <<>>]
    /\ PersistedDocs[2].category # PersistedDocs[1].category
    /\ PersistedDocs[2].processed_time > PersistedDocs[1].processed_time

\* a reclassification failed at the parser: the file of the record is gone
C12_WitnessParseFailed ==
    /\ result.op = "reclassify"
    /\ ~result.success
    /\ result.parsed

\* the positions 1..n that are in S, in increasing order
Ascending(S, n) == SelectSeq([i \in 1..n |-> i], LAMBDA i : i \in S)

\* what a search is to return when the documents at the positions in S are
\* the ones that match: they are listed once each in the order of the
\* knowledge base, or the no-results signal is given
Returns(ret, S) ==
    IF S = {} THEN ret.signal = "no results"
    ELSE ret.signal = "found" /\ ret.results = Ascending(S, Len(PersistedDocs))

\* C13: a keyword search of an existing knowledge base returns exactly the
\* documents that have the value as a substring of one of their core ideas or
\* of one of their keywords, each once, in the order of the knowledge base.
C13_KeywordSearch ==
    kbFile.exists =>
        \A v \in {"m", "python"} :
            Returns(SearchKnowledge(kbFile, "keyword", v),
                    {i \in DOMAIN PersistedDocs :
                        \/ \E k \in DOMAIN PersistedDocs[i].core_ideas :
                              Contains(v, PersistedDocs[i].core_ideas[k])
                        \/ \E k \in DOMAIN PersistedDocs[i].keywords :
                              Contains(v, PersistedDocs[i].keywords[k])})

\* C14: a related search of a knowledge base that ingestion wrote (every
\* category has its three levels) returns exactly the documents whose
\* related_docs is a list with an element equal to the value.
C14_RelatedSearchExact ==
    (/\ kbFile.exists
     /\ \A i \in DOMAIN PersistedDocs : Levels \subseteq DOMAIN PersistedDocs[i].category) =>
        \A v \in {"doc_", "doc_0000000a"} :
            Returns(SearchKnowledge(kbFile, "related", v),
                    {i \in DOMAIN PersistedDocs :
                        /\ PersistedDocs[i].related_docs.t = "list"
                        /\ \E k \in DOMAIN PersistedDocs[i].related_docs.items :
                              PersistedDocs[i].related_docs.items[k] = v})

\* C15: a search of an existing knowledge base for a query type other than
\* category, keyword and related returns the unsupported-query-type signal,
\* also when the knowledge base has no documents.
C15_UnsupportedType ==
    kbFile.exists => SearchKnowledge(kbFile, "author", "Work").signal = "unsupported"

\* C16: the classifier is called once for a document, before the first call
\* of the extractor; while the document is in the retry loop no further call
\* is made and the category stays as that call returned it, and it is the
\* category of the record appended.
C16_ClassifyOnce ==
    [][/\ (pc = "for" /\ pc' = "while") => (calls'.classify = 1 /\ calls'.extract = 0)
       /\ (pc = "while" /\ pc' = "while") =>
             /\ calls.classify = 1 /\ calls'.classify = 1
             /\ calls'.extract = calls.extract + 1
             /\ category' = category
       /\ (pc = "while" /\ pc' = "for") =>
             /\ calls.classify = 1
             /\ Len(knowledge_base'.documents) = Len(knowledge_base.documents) + 1
             /\ Last(knowledge_base'.documents).category = category]_vars

\* a record was appended after three extractions with the category the one
\* classification gave
C16_Witness ==
    /\ pc = "for"
    /\ retry_count = 3
    /\ Len(knowledge_base.documents) = 2
    /\ Last(knowledge_base.documents).category = category
    /\ category.level1 = "Work"

C18_ParsedFileGetsRecord ==
    [][/\ pc = "while" => pc' # "idle"
       /\ (pc = "while" /\ pc' = "for") =>
             LET r == Last(knowledge_base'.documents)
             IN  /\ Len(knowledge_base'.documents) = Len(knowledge_base.documents) + 1
                 /\ r.filename = Head(doc_files)
                 /\ r.core_ideas = extracted.core_ideas
                 /\ r.keywords = extracted.keywords
                 /\ r.related_docs = extracted.related_docs
       /\ (pc = "for" /\ pc' = "idle") => kbFile'.exists]_vars

PersistedSession == LoadMemory(memFile).session_status

\* C19: in a run the knowledge base file is written by one step only, the
\* one that ends the run once no candidate file is left, while the session
\* status in memory.json is written with each record appended: in every
\* state of a run the file holds the documents the run started with and
\* none of the records appended since, and total_processed in memory.json has
\* counted each of them (the state an interrupted run leaves behind).
C19_StoreWrittenAtEnd ==
    [][/\ (pc # "idle" /\ kbFile' # kbFile) =>
             (pc = "for" /\ doc_files = <<>> /\ pc' = "idle")
       /\ (pc = "idle" /\ pc' # "idle") =>
             /\ knowledge_base'.documents = PersistedDocs'
             /\ PersistedSession' = PersistedSession
       /\ (pc # "idle" /\ pc' # "idle") =>
             /\ PersistedDocs' = PersistedDocs
             /\ Len(PersistedDocs') <= Len(knowledge_base'.documents)
             /\ SubSeq(knowledge_base'.documents, 1, Len(PersistedDocs')) = PersistedDocs'
             /\ IF Len(knowledge_base'.documents) = Len(knowledge_base.documents) + 1
                THEN /\ PersistedSession'.total_processed =
                           PersistedSession.total_processed + 1
                     /\ PersistedSession'.last_processed =
                           Last(knowledge_base'.documents).filename
                ELSE /\ knowledge_base'.documents = knowledge_base.documents
                     /\ PersistedSession' = PersistedSession]_vars

\* a run has appended two records and has a file left to look at: no
\* knowledge base file is there yet and memory.json counts the two
C19_Witness ==
    /\ pc = "for"
    /\ doc_files # <<>>
    /\ ~kbFile.exists
    /\ Len(knowledge_base.documents) = 2
    /\ PersistedSession.total_processed = 2

\* C20: the user_preferences that a run writes into the knowledge base file
\* are the preferences memory.json holds at the end of that run.
C20_SnapshotRefreshed ==
    [][(pc = "for" /\ pc' = "idle") =>
          LoadPrefs(kbFile'.data.user_preferences) = PersistedPrefs']_vars

\* every element of the related_docs of record i is the id of another record
RelatedToOthers(documents) ==
    \A i \in DOMAIN documents :
        /\ documents[i].related_docs.t = "list"
        /\ \A k \in DOMAIN documents[i].related_docs.items :
              /\ documents[i].related_docs.items[k] # documents[i].id
              /\ \E j \in DOMAIN documents :
                    j # i /\ documents[j].id = documents[i].related_docs.items[k]

\* C21: in every reachable knowledge base, in memory or in the file, the
\* related_docs of each record is a list and every element of it is the id
\* of another record of that knowledge base, whatever the relation reply was.
C21_RelatedDocsAreOtherIds ==
    RelatedToOthers(knowledge_base.documents) /\ RelatedToOthers(PersistedDocs)

\* an extraction that asks for no retry by itself
ValidExtraction(e) ==
    /\ ~(Len(e.core_ideas) = 1 /\ Contains("No core ideas extracted", e.core_ideas[1]))
    /\ ~(Len(e.keywords) = 1 /\ Contains("No keywords extracted", e.keywords[1]))

SomeLevelUnclassified(cat) == \E level \in DOMAIN cat : cat[level] = "Unclassified"

\* C22: for a document whose category has a level equal to "Unclassified" the
\* extractor is called exactly 3 times before the record is appended,
\* whatever the calls return; for a document with a valid category a call
\* after the first is made only when the extraction before it was not valid,
\* and the record is appended after the first valid extraction or after the
\* third call.
C22_ExtractorCallCount ==
    [][/\ (pc = "while" /\ pc' = "while") =>
             /\ calls'.extract = calls.extract + 1
             /\ calls.extract < 3
             /\ (calls.extract > 0 /\ ~SomeLevelUnclassified(category)) =>
                   ~ValidExtraction(extracted)
       /\ (pc = "while" /\ pc' = "for") =>
             IF SomeLevelUnclassified(category)
             THEN calls.extract = 3
             ELSE /\ calls.extract \in 1..3
                  /\ calls.extract = 3 \/ ValidExtraction(extracted)]_vars

\* the third call was made for a category with one level Unclassified and,
\* like the ones before it, gave ideas and keywords
C22_Witness ==
    /\ pc = "while"
    /\ calls.extract = 3
    /\ retry_count = 3
    /\ category.level1 = "Unclassified"
    /\ category.level3 = "Plans"
    /\ ValidExtraction(extracted)

\* a record with a valid category was appended after its third extraction,
\* the first valid one
C22_WitnessValidCategory ==
    /\ pc = "for"
    /\ retry_count = 2
    /\ Len(knowledge_base.documents) > 0
    /\ ~SomeLevelUnclassified(Last(knowledge_base.documents).category)
    /\ Last(knowledge_base.documents).category = category
    /\ ValidExtraction(extracted)

\* C23: a category, keyword or related search of a knowledge base that
\* ingestion wrote (every category has its three levels; a record may have
\* an empty core_ideas list) does not fail with an error while it writes the
\* lines of a record that matched.
C23_RenderingNeverRaises ==
    (/\ kbFile.exists
     /\ \A i \in DOMAIN PersistedDocs : Levels \subseteq DOMAIN PersistedDocs[i].category) =>
        \A q \in {<<"category", "Work">>, <<"keyword", "m">>, <<"keyword", "python">>,
                  <<"related", "doc_">>, <<"related", "doc_0000000a">>} :
            LET ret == SearchKnowledge(kbFile, q[1], q[2])
            IN  ~(ret.signal = "raises" /\ ret.at = "rendering")

====
